---- MODULE Spec2Model ----
(***************************************************************************)
(* Model of the CLASP Python client (bindings/python/python/clasp/client.py)*)
(* as an asyncio program: every coroutine of the client is a thread of the  *)
(* model that moves from one `await` to the next in one atomic step, which  *)
(* is what asyncio's cooperative scheduling guarantees.                     *)
(*                                                                         *)
(* Threads: 0 is the caller of connect(); 1..MaxTasks are receive tasks     *)
(* (asyncio.create_task(self._receive_loop())); the caller of close() and   *)
(* the callers of get() have their own program counters.                    *)
(* Python >= 3.8 is assumed: asyncio.CancelledError is a BaseException, so  *)
(* the `except Exception` clauses of the client do not catch it.            *)
(***************************************************************************)
EXTENDS Integers, Sequences, FiniteSets, TLC

\* ---------------------------------------------------------------- bounds
MaxTasks == 2        \* receive tasks alive or remembered at one time
MaxWs == 3           \* transports the environment lets the client open
MaxFrames == 4       \* inbound frames the peer sends (Spec)
GetMaxFrames == 2    \* inbound frames the peer sends (SpecGet)
DispatchMaxFrames == 2   \* inbound frames the peer sends (SpecDispatch)
NumGets == 2         \* callers of get()
MaxSubs == 3         \* subscription ids the registry has room for
DispatchSubs == 2    \* subscribe() calls by the application (SpecDispatch)
MaxConnects == 2     \* connect() calls by the application (Spec)
MaxCloses == 1       \* close() calls by the application (Spec)
SessionSubs == 1     \* subscribe() calls (Spec)
GetConnects == 1     \* connect() calls by the application (SpecGet)
GetCloses == 1       \* close() calls by the application (SpecGet)
DispatchConnects == 1    \* connect() calls by the application (SpecDispatch)
MaxDepth == 4        \* segments of an address given to the matcher (SpecMatch)
CacheMaxFrames == 2  \* inbound frames the peer sends (SpecCache)
CacheConnects == 1   \* connect() calls by the application (SpecCache)
CacheCloses == 1     \* close() calls by the application (SpecCache)
CacheSubs == 1       \* subscribe() calls (SpecCache)
ReentrantMaxFrames == 3  \* inbound frames the peer sends (SpecReentrant)
ReentrantConnects == 1   \* connect() calls by the application (SpecReentrant)
ReentrantSubs == 2       \* subscribe() calls by the application (SpecReentrant)

\* ------------------------------------------------------------ vocabulary
None == "None"               \* Python's None
Absent == "absent"           \* key not in a dict
Magic == 83                  \* 0x53
LocalClock == 100            \* int(time.time() * 1_000_000) at WELCOME

Addr_a == <<"/", "a">>
Addr_b == <<"/", "b">>
Addrs == {Addr_a, Addr_b}

\* Values carried by messages. "0" stands for the integer 0 and "" for the
\* empty string (both falsy in Python), "1" for the integer 1 (truthy).
Values == {"0", "", "1"}
Truthy(v) == v \notin {"0", "", None}
\* Python's `a or b`
PyOr(a, b) == IF Truthy(a) THEN a ELSE b

Pat_a == <<"/", "a">>
Pat_all == <<"/", "*", "*">>
Pat_one == <<"/", "*">>
Patterns == {Pat_a, Pat_all, Pat_one}

Tasks == 1..MaxTasks
Threads == 0..MaxTasks
WsIds == 1..MaxWs
GetIds == 1..NumGets
SubIds == 1..MaxSubs

\* ------------------------------------------------------- pattern matching
\* str.replace(old, new): left to right, non-overlapping.
RECURSIVE Replace(_, _, _)
Replace(s, old, new) ==
    IF Len(s) < Len(old) THEN s
    ELSE IF SubSeq(s, 1, Len(old)) = old
         THEN new \o Replace(SubSeq(s, Len(old) + 1, Len(s)), old, new)
         ELSE <<Head(s)>> \o Replace(Tail(s), old, new)

\* Index of the first "]" of s at or after j, Len(s) + 1 when there is none.
RECURSIVE CloseBracket(_, _)
CloseBracket(s, j) ==
    IF j > Len(s) THEN Len(s) + 1
    ELSE IF s[j] = "]" THEN j ELSE CloseBracket(s, j + 1)

SeqRange(s) == {s[i] : i \in 1..Len(s)}

\* fnmatch.translate: the glob pattern as a sequence of tokens. A token
\* matches one character ("in": one of chars, "notin": none of chars,
\* "any") or any string ("star"). In a bracket expression only a leading
\* "!" negates; a leading "^" is escaped and stands for itself.
RECURSIVE FnTokens(_)
FnTokens(pat) ==
    IF pat = <<>> THEN <<>>
    ELSE LET c == Head(pat)
             rest == Tail(pat)
         IN  IF c = "*" THEN <<[kind |-> "star", chars |-> {}]>> \o FnTokens(rest)
             ELSE IF c = "?" THEN <<[kind |-> "any", chars |-> {}]>> \o FnTokens(rest)
             ELSE IF c = "["
             THEN LET j1 == IF 1 <= Len(rest) /\ rest[1] = "!" THEN 2 ELSE 1
                      j2 == IF j1 <= Len(rest) /\ rest[j1] = "]" THEN j1 + 1 ELSE j1
                      j3 == CloseBracket(rest, j2)
                      stuff == SubSeq(rest, 1, j3 - 1)
                  IN  IF j3 > Len(rest)
                      THEN <<[kind |-> "in", chars |-> {"["}]>> \o FnTokens(rest)
                      ELSE <<IF stuff[1] = "!"
                             THEN [kind |-> "notin", chars |-> SeqRange(Tail(stuff))]
                             ELSE [kind |-> "in", chars |-> SeqRange(stuff)]>>
                           \o FnTokens(SubSeq(rest, j3 + 1, Len(rest)))
             ELSE <<[kind |-> "in", chars |-> {c}]>> \o FnTokens(rest)

TokenMatches(t, ch) ==
    CASE t.kind = "any" -> TRUE
      [] t.kind = "in" -> ch \in t.chars
      [] t.kind = "notin" -> ch \notin t.chars
      [] OTHER -> FALSE

\* re.match of the translated pattern against the whole name.
RECURSIVE GlobMatch(_, _)
GlobMatch(tk, s) ==
    IF tk = <<>> THEN s = <<>>
    ELSE IF Head(tk).kind = "star"
         THEN \E k \in 0..Len(s) : GlobMatch(Tail(tk), SubSeq(s, k + 1, Len(s)))
         ELSE /\ s # <<>>
              /\ TokenMatches(Head(tk), Head(s))
              /\ GlobMatch(Tail(tk), Tail(s))

fnmatch(name, pat) == GlobMatch(FnTokens(pat), name)

\* Clasp._match_pattern. The character "S" stands for the sentinel U+00A7,
\* which no pattern of the model contains.
fn_pattern(pattern) ==
    Replace(Replace(Replace(pattern, <<"*", "*">>, <<"S", "S">>),
                    <<"*">>, <<"[", "^", "/", "]", "*">>),
            <<"S", "S">>, <<"*">>)

match_pattern(pattern, address) == fnmatch(address, fn_pattern(pattern))

\* match_pattern over the patterns and addresses of the model, computed once.
MatchTable == [p \in Patterns |-> [a \in Addrs |-> match_pattern(p, a)]]
matches(pattern, address) == MatchTable[pattern][address]

\* ---------------------------------------------------------------- messages
\* A decoded message is a dict; a key the message does not carry reads as
\* None through dict.get.
Msg(type) ==
    [type |-> type, address |-> <<>>, value |-> None, payload |-> None,
     signal |-> None, params |-> <<>>, session |-> None, time |-> 0, id |-> 0]

NoMsg == Msg(None)

Entries == {[address |-> a, value |-> v] : a \in Addrs, v \in Values}

\* The SNAPSHOT bodies the peer sends: every single entry, and every pair of
\* entries that begins with an entry for Addr_a.
SnapshotBodies ==
    {<<e>> : e \in Entries}
    \cup {<<e1, e2>> : e1 \in {e \in Entries : e.address = Addr_a}, e2 \in Entries}

WelcomeTime == 105
SessionIds == {"s1"}

InboundMsgs ==
    {[Msg("WELCOME") EXCEPT !.session = s, !.time = WelcomeTime] : s \in SessionIds}
    \cup {[Msg("SET") EXCEPT !.address = a, !.value = v] : a \in Addrs, v \in Values}
    \cup {[Msg("SNAPSHOT") EXCEPT !.params = b] : b \in SnapshotBodies}
    \cup {[Msg("PUBLISH") EXCEPT !.address = a, !.signal = "stream", !.value = v] :
            a \in Addrs, v \in Values}
    \cup {[Msg("PUBLISH") EXCEPT !.address = a, !.signal = "event", !.payload = v] :
            a \in Addrs, v \in Values}
    \cup {Msg("PING"), Msg("ERROR")}

\* An inbound frame: the header's magic byte and the payload it carries.
\* A frame with a wrong magic byte is the malformed frame of the model.
Frames ==
    {[magic |-> Magic, msg |-> m] : m \in InboundMsgs}
    \cup {[magic |-> 0, msg |-> NoMsg]}

\* Clasp._decode, as far as the session is concerned: the frame is refused
\* (ClaspError("Invalid frame")) or its payload is unpacked.
DecodeFails(f) == f.magic # Magic
decode(f) == f.msg

\* ------------------------------------------------------------------- state
VARIABLES
    reconnect,            \* self.reconnect
    connected,            \* self._connected
    session_id,           \* self._session_id
    server_time_offset,   \* self._server_time_offset
    ws,                   \* self._ws: a transport id or None (0)
    params,               \* self._params
    subscriptions,        \* self._subscriptions
    next_sub_id,          \* self._next_sub_id
    pending_gets,         \* self._pending_gets: address -> get caller owning the future, 0 = no slot
    receive_task,         \* self._receive_task: a task id or None (0)
    wsState,              \* each transport: "new", "open" or "closed"
    thr,                  \* connect caller and receive tasks: program counter, transport awaited
    closer,               \* the caller of close(): program counter, and whether the
                          \* application's connect() ran beside this close()
    gets,                 \* the callers of get(): program counter, address, future
                          \* (the result of a call is ev.res of the step that ends it)
    afterClose,           \* "no", or close() has returned and connect() was not called
                          \* since: "yes", or "overlap" when the application's
                          \* connect() was in progress while close() ran
    budget,               \* what the environment may still do: calls and frames left
    ev                    \* what the last step did (callbacks run, frames written, result)

vars == <<reconnect, connected, session_id, server_time_offset, ws, params,
          subscriptions, next_sub_id, pending_gets, receive_task, wsState, thr,
          closer, gets, afterClose, budget, ev>>

client == <<reconnect, connected, session_id, server_time_offset, ws, params,
            subscriptions, next_sub_id, pending_gets, receive_task>>

NoWs == 0
NoTask == 0
NoSub == [pattern |-> <<>>, cb |-> "none"]

\* What a step did. arg: the address a get() was called with (the pattern
\* and the address, for a call of the matcher); invoked: the subscriber
\* callbacks called, in order, as
\* <<subscription id, value, address>>; cbs: the connect, disconnect and
\* error callbacks called; out: the frames handed to a transport.
Ev(op, who, res) ==
    [op |-> op, who |-> who, res |-> res, arg |-> <<>>, msg |-> NoMsg,
     invoked |-> <<>>, cbs |-> <<>>, out |-> <<>>]

Out(w, m) == [ws |-> w, msg |-> m]

\* The client after __init__ (lines 112-132); credits is what the
\* application and the peer may do in the behaviour, rc the values of the
\* constructor's reconnect argument.
Constructed(credits, rc) ==
    /\ reconnect \in rc
    /\ connected = FALSE
    /\ session_id = None
    /\ server_time_offset = 0
    /\ ws = NoWs
    /\ params = [a \in Addrs |-> Absent]
    /\ subscriptions = [i \in SubIds |-> NoSub]
    /\ next_sub_id = 1
    /\ pending_gets = [a \in Addrs |-> 0]
    /\ receive_task = NoTask
    /\ wsState = [w \in WsIds |-> "new"]
    /\ thr = [p \in Threads |-> [pc |-> IF p = 0 THEN "idle" ELSE "none", ws |-> NoWs]]
    /\ closer = [pc |-> "idle", overlap |-> FALSE]
    /\ gets = [g \in GetIds |-> [pc |-> "idle", addr |-> <<>>, futDone |-> FALSE,
                                 futVal |-> None, seen |-> None]]
    /\ afterClose = "no"
    /\ budget = credits
    /\ ev = Ev("init", 0, None)

\* ---------------------------------------------------------------- helpers
IsOpen(w) == w # NoWs /\ wsState[w] = "open"

\* Clasp._send started with asyncio.create_task (subscribe, unsubscribe,
\* PONG): the frame is written when there is an open transport, otherwise
\* the detached task ends with an exception nobody retrieves.
detached_send(m) == IF IsOpen(ws) THEN <<Out(ws, m)>> ELSE <<>>

CbEv(cb, arg) == [cb |-> cb, arg |-> arg]
Call(i, value, address) == [sub |-> i, value |-> value, address |-> address]

\* What a handler works on: the parameter cache, the pending-request table,
\* the get callers' futures, the subscription registry and by how much its
\* size has changed since the handler began (the dict counts its entries
\* on every insertion and deletion), what the handler has called and
\* written so far, and the exception that left it (None: it returned).
Work == [params |-> params, pend |-> pending_gets, gets |-> gets,
         subscriptions |-> subscriptions, next_sub_id |-> next_sub_id,
         grown |-> 0,
         invoked |-> <<>>, cbs |-> <<>>, out |-> <<>>, raised |-> None]

\* An unsubscribe capability that leaves the registry as it is.
del_nothing(subs, i) == subs

\* Line 242: del self._subscriptions[sub_id]
del_subscription(subs, i) == [subs EXCEPT ![i] = NoSub]

\* A callback that calls self.subscribe('/**', cb) while it is invoked
\* (lines 227-238).
subscribe_within(h) ==
    [h EXCEPT !.subscriptions = IF h.next_sub_id <= MaxSubs
                                THEN [@ EXCEPT ![h.next_sub_id] =
                                         [pattern |-> Pat_all, cb |-> "ok"]]
                                ELSE @,
              !.grown = IF h.next_sub_id <= MaxSubs THEN @ + 1 ELSE @,
              !.next_sub_id = @ + 1,
              !.out = @ \o detached_send([Msg("SUBSCRIBE") EXCEPT !.id = h.next_sub_id])]

\* A callback that calls the unsubscribe capability of subscription i while
\* it is invoked (lines 240-246).
unsubscribe_within(h, i) ==
    IF h.subscriptions[i] = NoSub THEN h
    ELSE [h EXCEPT !.subscriptions = del_subscription(@, i),
                   !.grown = @ - 1,
                   !.out = @ \o detached_send([Msg("UNSUBSCRIBE") EXCEPT !.id = i])]

\* Lines 459-463: the callback of subscription i is called with (value,
\* address). What it does is its cb: "ok" returns, "raise" raises an
\* Exception, which is caught and handed to the error callbacks,
\* "subscribe" makes a new subscription and "unsubscribe" ends its own.
callback(h, i, value, address) ==
    LET cb == h.subscriptions[i].cb
        h1 == [h EXCEPT !.invoked = Append(@, Call(i, value, address))]
    IN  CASE cb = "raise" ->
                [h1 EXCEPT !.cbs = Append(@, CbEv("on_error", "CallbackError"))]
          [] cb = "subscribe" -> subscribe_within(h1)
          [] cb = "unsubscribe" -> unsubscribe_within(h1, i)
          [] OTHER -> h1

\* Clasp._notify_subscribers: `for ... in self._subscriptions.values()`
\* visits the entries in dict order (ascending id). Every step of the
\* iterator, the one that finds the dict exhausted included, first compares
\* the dict's size with the size it had when the iteration began (used,
\* here as the change of size since the handler began)
\* and raises RuntimeError("dictionary changed size during iteration")
\* when they differ; that happens outside the try of lines 459-463.
RECURSIVE NotifyFrom(_, _, _, _, _)
NotifyFrom(i, used, h, address, value) ==
    IF h.grown # used THEN [h EXCEPT !.raised = "RuntimeError"]
    ELSE IF i > MaxSubs THEN h
    ELSE LET s == h.subscriptions[i]
         IN  IF s # NoSub /\ matches(s.pattern, address)
             THEN NotifyFrom(i + 1, used, callback(h, i, value, address), address, value)
             ELSE NotifyFrom(i + 1, used, h, address, value)

\* A dispatch without the try/except of lines 459-463: the first callback
\* that raises ends it, and its exception leaves the handler.
RECURSIVE NotifyNoCatchFrom(_, _, _, _)
NotifyNoCatchFrom(i, h, address, value) ==
    IF i > MaxSubs THEN h
    ELSE LET s == subscriptions[i]
         IN  IF s # NoSub /\ matches(s.pattern, address)
             THEN IF s.cb = "raise"
                  THEN [h EXCEPT !.invoked = Append(@, Call(i, value, address)),
                                 !.raised = "CallbackError"]
                  ELSE NotifyNoCatchFrom(i + 1,
                           [h EXCEPT !.invoked = Append(@, Call(i, value, address))],
                           address, value)
             ELSE NotifyNoCatchFrom(i + 1, h, address, value)

notify_no_catch(h, address, value) ==
    IF h.raised # None THEN h ELSE NotifyNoCatchFrom(1, h, address, value)

notify_subscribers(h, address, value) ==
    NotifyFrom(1, h.grown, h, address, value)

\* The callers suspended in get(e.address) now have seen an entry for
\* their address: each remembers the first one (a history of the model).
mark_seen(gs, e) ==
    [g \in GetIds |->
        IF gs[g].pc = "wait" /\ gs[g].addr = e.address /\ gs[g].seen = None
        THEN [gs[g] EXCEPT !.seen = e.value] ELSE gs[g]]

\* One entry of a SNAPSHOT: cache it, resolve and drop the pending slot.
snapshot_entry(h, e) ==
    LET g == h.pend[e.address]
        h1 == [h EXCEPT !.params[e.address] = e.value, !.gets = mark_seen(@, e)]
        h2 == IF g # 0
              THEN [h1 EXCEPT !.gets[g].futDone = TRUE,
                              !.gets[g].futVal = e.value,
                              !.pend[e.address] = 0]
              ELSE h1
    IN  notify_subscribers(h2, e.address, e.value)

RECURSIVE snapshot_entries(_, _)
snapshot_entries(h, es) ==
    IF es = <<>> \/ h.raised # None THEN h
    ELSE snapshot_entries(snapshot_entry(h, Head(es)), Tail(es))

\* The value a PUBLISH is dispatched with.
publish_value(msg) == PyOr(msg.value, msg.payload)

\* Clasp._handle_message
handle_message(h, msg) ==
    CASE msg.type = "SET" ->
            notify_subscribers([h EXCEPT !.params[msg.address] = msg.value],
                               msg.address, msg.value)
      [] msg.type = "SNAPSHOT" -> snapshot_entries(h, msg.params)
      [] msg.type = "PUBLISH" ->
            notify_subscribers(h, msg.address, publish_value(msg))
      [] msg.type = "PING" -> [h EXCEPT !.out = @ \o detached_send(Msg("PONG"))]
      [] OTHER -> h

\* websockets refuses a second recv() on a transport while another
\* coroutine is waiting in recv() on it (RuntimeError).
RecvBusy(p, w) ==
    \E q \in Threads \ {p} : thr[q].pc \in {"recv", "welcome"} /\ thr[q].ws = w

Stopped(p) == [pc |-> IF p = 0 THEN "idle" ELSE "done", ws |-> NoWs]

FreeTasks(p) == {t \in Tasks \ {p} : thr[t].pc \in {"none", "done", "cancelled"}}
NewTask(p) == CHOOSE t \in FreeTasks(p) : \A u \in FreeTasks(p) : t <= u

\* ------------------------------------------------------------ connect()
\* A connect() that does not look at the connectivity flag.
already_connected_never == FALSE

\* connect(), line 155
already_connected == connected

\* Thread p calls connect(): the application (p = 0) or a receive task
\* after its reconnect wait. "Already connected" is raised before the try
\* block; a receive task swallows it (line 414).
connect_enter(p, op) ==
    /\ IF already_connected
       THEN /\ thr' = [thr EXCEPT ![p] = Stopped(p)]
            /\ ev' = Ev(op, p, "Already connected")
       ELSE /\ thr' = [thr EXCEPT ![p] = [pc |-> "opening", ws |-> NoWs]]
            /\ ev' = Ev(op, p, "opening")
    /\ UNCHANGED <<client, wsState, gets>>

ConnectCall ==
    /\ thr[0].pc = "idle"
    /\ budget.connects > 0
    /\ connect_enter(0, "connect")
    /\ budget' = [budget EXCEPT !.connects = @ - 1]
    /\ closer' = [closer EXCEPT !.overlap = (closer.pc # "idle")]
    /\ afterClose' = "no"

\* asyncio.sleep(self.reconnect_interval) is over: await self.connect()
ReconnectWake(t) ==
    /\ thr[t].pc = "sleep"
    /\ connect_enter(t, "reconnect")
    /\ UNCHANGED <<budget, closer, afterClose>>

\* websockets.connect returned a transport: self._ws is set and HELLO is
\* handed to it; the coroutine is suspended in self._ws.send.
ConnectOpen(p) ==
    /\ thr[p].pc = "opening"
    /\ \E w \in WsIds :
          /\ wsState[w] = "new"
          /\ \A u \in WsIds : wsState[u] = "new" => w <= u
          /\ wsState' = [wsState EXCEPT ![w] = "open"]
          /\ ws' = w
          /\ thr' = [thr EXCEPT ![p] = [pc |-> "hello", ws |-> w]]
          /\ ev' = [Ev("open", p, "ok") EXCEPT !.out = <<Out(w, Msg("HELLO"))>>]
    /\ UNCHANGED <<reconnect, connected, session_id, server_time_offset, params,
                   subscriptions, next_sub_id, pending_gets, receive_task,
                   closer, gets, afterClose, budget>>

\* A step of connect() raised: ClaspError("Connection failed") reaches the
\* application, or is swallowed by the receive task that was reconnecting.
connect_failed(p, why) ==
    /\ thr' = [thr EXCEPT ![p] = Stopped(p)]
    /\ ev' = Ev("connect_failed", p, why)
    /\ UNCHANGED <<client, wsState, closer, gets, afterClose>>

\* websockets.connect raised.
ConnectOpenFail(p) ==
    /\ thr[p].pc = "opening"
    /\ connect_failed(p, "open failed")
    /\ UNCHANGED budget

\* self._ws.send(HELLO) is over; the first self._ws.recv() of the loop that
\* waits for WELCOME reads self._ws again.
ConnectHello(p) ==
    /\ thr[p].pc = "hello"
    /\ UNCHANGED budget
    /\ IF ~IsOpen(thr[p].ws) THEN connect_failed(p, "ConnectionClosed")
       ELSE IF ws = NoWs THEN connect_failed(p, "AttributeError")
       ELSE IF RecvBusy(p, ws) THEN connect_failed(p, "RuntimeError")
       ELSE /\ thr' = [thr EXCEPT ![p] = [pc |-> "welcome", ws |-> ws]]
            /\ ev' = Ev("hello_sent", p, "ok")
            /\ UNCHANGED <<client, wsState, closer, gets, afterClose>>

\* A frame arrives while connect() waits for WELCOME (lines 174-189).
ConnectRecv(p, f) ==
    /\ thr[p].pc = "welcome"
    /\ IsOpen(thr[p].ws)
    /\ budget.frames > 0
    /\ budget' = [budget EXCEPT !.frames = @ - 1]
    /\ IF DecodeFails(f) THEN connect_failed(p, "Invalid frame")
       ELSE IF decode(f).type = "WELCOME"
       THEN /\ FreeTasks(p) # {}
            /\ session_id' = decode(f).session
            /\ server_time_offset' = decode(f).time - LocalClock
            /\ connected' = TRUE
            /\ receive_task' = NewTask(p)
            /\ thr' = [thr EXCEPT ![p] = Stopped(p),
                                  ![NewTask(p)] = [pc |-> "start", ws |-> NoWs]]
            /\ \E raises \in BOOLEAN :
                  ev' = [Ev("welcome", p, IF raises THEN "ClaspError" ELSE "ok")
                            EXCEPT !.msg = decode(f),
                                   !.cbs = <<CbEv("on_connect",
                                                  IF raises THEN "raises" ELSE "returns")>>]
            /\ UNCHANGED <<reconnect, ws, params, subscriptions, next_sub_id,
                           pending_gets, wsState, closer, gets, afterClose>>
       ELSE IF ws = NoWs THEN connect_failed(p, "AttributeError")
       ELSE IF RecvBusy(p, ws) THEN connect_failed(p, "RuntimeError")
       ELSE /\ thr' = [thr EXCEPT ![p] = [pc |-> "welcome", ws |-> ws]]
            /\ ev' = [Ev("skipped", p, "ok") EXCEPT !.msg = decode(f)]
            /\ UNCHANGED <<client, wsState, closer, gets, afterClose>>

\* The transport closes while connect() waits for WELCOME.
ConnectRecvClosed(p) ==
    /\ thr[p].pc = "welcome"
    /\ ~IsOpen(thr[p].ws)
    /\ connect_failed(p, "ConnectionClosed")
    /\ UNCHANGED budget

\* ------------------------------------------------------- _receive_loop()
\* A loop that handles every exception as it handles ConnectionClosed with
\* reconnection enabled: it goes on to the reconnect wait.
loop_failed_reconnects(t, e) ==
    [next |-> [pc |-> "sleep", ws |-> NoWs], cbs |-> <<CbEv("on_error", e)>>]

\* Lines 417-419: an exception e other than ConnectionClosed leaves the
\* loop: the error callbacks are called with it and the task ends.
loop_failed(t, e) == [next |-> Stopped(t), cbs |-> <<CbEv("on_error", e)>>]

\* The head of the while loop followed by self._ws.recv().
loop_next(t) ==
    IF connected /\ ws # NoWs
    THEN IF RecvBusy(t, ws)
         THEN loop_failed(t, "RuntimeError")
         ELSE [next |-> [pc |-> "recv", ws |-> ws], cbs |-> <<>>]
    ELSE [next |-> Stopped(t), cbs |-> <<>>]

\* The task created by connect() runs for the first time.
TaskStart(t) ==
    /\ thr[t].pc = "start"
    /\ thr' = [thr EXCEPT ![t] = loop_next(t).next]
    /\ ev' = [Ev("task_start", t, loop_next(t).next.pc) EXCEPT !.cbs = loop_next(t).cbs]
    /\ UNCHANGED <<client, wsState, closer, gets, afterClose, budget>>

\* recv() returns a frame: decode it, handle it, read again (lines 399-402);
\* a frame that does not decode, or an exception that leaves the handler,
\* ends the loop through the error callbacks (lines 417-419).
TaskRecv(t, f) ==
    /\ thr[t].pc = "recv"
    /\ IsOpen(thr[t].ws)
    /\ budget.frames > 0
    /\ budget' = [budget EXCEPT !.frames = @ - 1]
    /\ IF DecodeFails(f)
       THEN /\ thr' = [thr EXCEPT ![t] = loop_failed(t, "Invalid frame").next]
            /\ ev' = [Ev("recv", t, "error") EXCEPT
                         !.cbs = loop_failed(t, "Invalid frame").cbs]
            /\ UNCHANGED <<params, pending_gets, gets, subscriptions, next_sub_id>>
       ELSE LET h == handle_message(Work, decode(f))
                nx == IF h.raised # None
                      THEN loop_failed(t, h.raised)
                      ELSE loop_next(t)
            IN  /\ h.next_sub_id <= MaxSubs + 1
                /\ params' = h.params
                /\ pending_gets' = h.pend
                /\ subscriptions' = h.subscriptions
                /\ next_sub_id' = h.next_sub_id
                /\ gets' = h.gets
                /\ thr' = [thr EXCEPT ![t] = nx.next]
                /\ ev' = [Ev("recv", t, IF h.raised # None THEN "error" ELSE "ok") EXCEPT
                             !.msg = decode(f), !.invoked = h.invoked,
                             !.cbs = h.cbs \o nx.cbs, !.out = h.out]
    /\ UNCHANGED <<reconnect, connected, session_id, server_time_offset, ws,
                   receive_task, wsState, closer, afterClose>>

\* recv() raises ConnectionClosed (lines 404-411).
TaskConnClosed(t) ==
    /\ thr[t].pc = "recv"
    /\ ~IsOpen(thr[t].ws)
    /\ connected' = FALSE
    /\ thr' = [thr EXCEPT ![t] = IF reconnect THEN [pc |-> "sleep", ws |-> NoWs]
                                 ELSE Stopped(t)]
    /\ ev' = [Ev("conn_closed", t, IF reconnect THEN "sleep" ELSE "done") EXCEPT
                 !.cbs = <<CbEv("on_disconnect", "ConnectionClosed")>>]
    /\ UNCHANGED <<reconnect, session_id, server_time_offset, ws, params,
                   subscriptions, next_sub_id, pending_gets, receive_task,
                   wsState, closer, gets, afterClose, budget>>

\* The peer, or the network, closes a transport.
PeerClose(w) ==
    /\ wsState[w] = "open"
    /\ wsState' = [wsState EXCEPT ![w] = "closed"]
    /\ ev' = Ev("peer_close", w, None)
    /\ UNCHANGED <<client, thr, closer, gets, afterClose, budget>>

\* -------------------------------------------------------------- close()
\* Lines 206-208: close the transport, if there is one, and forget it.
\* Closing a transport that is still open suspends close() until the
\* closing handshake is over.
close_returns(overlap) ==
    /\ closer' = [pc |-> "idle", overlap |-> FALSE]
    /\ afterClose' = IF overlap THEN "overlap" ELSE "yes"

close_release(overlap) ==
    IF ws = NoWs
    THEN /\ close_returns(overlap)
         /\ UNCHANGED <<ws, wsState>>
    ELSE IF wsState[ws] = "open"
    THEN /\ wsState' = [wsState EXCEPT ![ws] = "closed"]
         /\ closer' = [pc |-> "closing_ws", overlap |-> overlap]
         /\ UNCHANGED <<ws, afterClose>>
    ELSE /\ ws' = NoWs
         /\ close_returns(overlap)
         /\ UNCHANGED wsState

\* The task close() has to cancel and wait for (line 199).
task_to_cancel ==
    IF receive_task # NoTask /\ thr[receive_task].pc \notin {"done", "cancelled"}
    THEN receive_task ELSE NoTask

\* close() is called (lines 196-204). The cancelled task is suspended at an
\* await and ends there with CancelledError, whatever it was waiting for.
CloseCall ==
    /\ closer.pc = "idle"
    /\ budget.closes > 0
    /\ budget' = [budget EXCEPT !.closes = @ - 1]
    /\ reconnect' = FALSE
    /\ connected' = FALSE
    /\ IF task_to_cancel # NoTask
       THEN /\ thr' = [thr EXCEPT ![task_to_cancel] = [pc |-> "cancelled", ws |-> NoWs]]
            /\ closer' = [pc |-> "await_task", overlap |-> thr[0].pc # "idle"]
            /\ UNCHANGED <<ws, wsState, afterClose>>
       ELSE /\ close_release(thr[0].pc # "idle")
            /\ UNCHANGED thr
    /\ ev' = Ev("close", 0, IF closer'.pc = "idle" THEN "returned" ELSE "suspended")
    /\ UNCHANGED <<session_id, server_time_offset, params, subscriptions,
                   next_sub_id, pending_gets, receive_task, gets>>

\* The cancelled task is over: close() goes on to the transport.
CloseAwaited ==
    /\ closer.pc = "await_task"
    /\ close_release(closer.overlap)
    /\ ev' = Ev("close", 0, IF closer'.pc = "idle" THEN "returned" ELSE "suspended")
    /\ UNCHANGED <<reconnect, connected, session_id, server_time_offset, params,
                   subscriptions, next_sub_id, pending_gets, receive_task, thr,
                   gets, budget>>

\* self._ws.close() is over: self._ws = None, and close() returns.
CloseFinish ==
    /\ closer.pc = "closing_ws"
    /\ ws' = NoWs
    /\ close_returns(closer.overlap)
    /\ ev' = Ev("close", 0, "returned")
    /\ UNCHANGED <<reconnect, connected, session_id, server_time_offset, params,
                   subscriptions, next_sub_id, pending_gets, receive_task,
                   wsState, thr, gets, budget>>

\* ---------------------------------------------------------------- get()
\* A cache test by truth value (`if self._params.get(address):`).
cache_hit_truthy(a) == params[a] # Absent /\ Truthy(params[a])

\* Line 275
cache_hit(a) == params[a] # Absent

GetDone ==
    [pc |-> "done", addr |-> <<>>, futDone |-> FALSE, futVal |-> None, seen |-> None]

\* The g-th call of get(address) (lines 275-285): the cached value, or a
\* pending slot and a GET; _send raises when there is no transport or it is
\* closed.
GetCall(g, a) ==
    /\ gets[g].pc = "idle"
    /\ \A h \in GetIds : h < g => gets[h].pc # "idle"
    /\ IF cache_hit(a)
       THEN /\ gets' = [gets EXCEPT ![g] = GetDone]
            /\ ev' = [Ev("get", g, params[a]) EXCEPT !.arg = a]
            /\ UNCHANGED pending_gets
       ELSE /\ pending_gets' = [pending_gets EXCEPT ![a] = g]
            /\ IF ws = NoWs
               THEN /\ gets' = [gets EXCEPT ![g] = GetDone]
                    /\ ev' = [Ev("get", g, "Not connected") EXCEPT !.arg = a]
               ELSE IF ~IsOpen(ws)
               THEN /\ gets' = [gets EXCEPT ![g] = GetDone]
                    /\ ev' = [Ev("get", g, "ConnectionClosed") EXCEPT !.arg = a]
               ELSE /\ gets' = [gets EXCEPT ![g] = [pc |-> "wait", addr |-> a,
                                   futDone |-> FALSE, futVal |-> None,
                                   seen |-> None]]
                    /\ ev' = [Ev("get", g, "waiting") EXCEPT
                                 !.arg = a,
                                 !.out = <<Out(ws, [Msg("GET") EXCEPT !.address = a])>>]
    /\ UNCHANGED <<reconnect, connected, session_id, server_time_offset, ws, params,
                   subscriptions, next_sub_id, receive_task, wsState, thr, closer,
                   afterClose, budget>>

\* Lines 286-288: the timeout elapses before the future has a result.
\* `del self._pending_gets[address]` raises KeyError when the slot is gone.
GetTimeout(g) ==
    /\ gets[g].pc = "wait"
    /\ ~gets[g].futDone
    /\ LET a == gets[g].addr
       IN  IF pending_gets[a] # 0
           THEN /\ pending_gets' = [pending_gets EXCEPT ![a] = 0]
                /\ gets' = [gets EXCEPT ![g] = GetDone]
                /\ ev' = [Ev("get_timeout", g, "Get timeout") EXCEPT !.arg = a]
           ELSE /\ gets' = [gets EXCEPT ![g] = GetDone]
                /\ ev' = [Ev("get_timeout", g, "KeyError") EXCEPT !.arg = a]
                /\ UNCHANGED pending_gets
    /\ UNCHANGED <<reconnect, connected, session_id, server_time_offset, ws, params,
                   subscriptions, next_sub_id, receive_task, wsState, thr, closer,
                   afterClose, budget>>

\* Line 285: the future has a result and get() returns it.
GetReturn(g) ==
    /\ gets[g].pc = "wait"
    /\ gets[g].futDone
    /\ gets' = [gets EXCEPT ![g] = GetDone]
    /\ ev' = [Ev("get_return", g, gets[g].futVal) EXCEPT !.arg = gets[g].addr]
    /\ UNCHANGED <<client, wsState, thr, closer, afterClose, budget>>

\* ------------------------------------------------- subscribe, unsubscribe
\* subscribe(pattern, callback): cb tells what the callback does when it is
\* called: "ok" (returns), "raise" (raises an Exception), "subscribe" (calls
\* subscribe) or "unsubscribe" (calls its own unsubscribe capability).
Subscribe(pattern, cb) ==
    /\ next_sub_id <= MaxSubs
    /\ budget.subs > 0
    /\ budget' = [budget EXCEPT !.subs = @ - 1]
    /\ subscriptions' = [subscriptions EXCEPT ![next_sub_id] =
                            [pattern |-> pattern, cb |-> cb]]
    /\ next_sub_id' = next_sub_id + 1
    /\ ev' = [Ev("subscribe", next_sub_id, "ok") EXCEPT
                 !.out = detached_send([Msg("SUBSCRIBE") EXCEPT !.id = next_sub_id])]
    /\ UNCHANGED <<reconnect, connected, session_id, server_time_offset, ws, params,
                   pending_gets, receive_task, wsState, thr, closer, gets,
                   afterClose>>

\* The unsubscribe capability of subscription i (lines 240-246).
Unsubscribe(i) ==
    /\ i < next_sub_id
    /\ subscriptions[i] # NoSub
    /\ subscriptions' = del_subscription(subscriptions, i)
    /\ ev' = [Ev("unsubscribe", i, "ok") EXCEPT
                 !.out = detached_send([Msg("UNSUBSCRIBE") EXCEPT !.id = i])]
    /\ UNCHANGED <<reconnect, connected, session_id, server_time_offset, ws, params,
                   next_sub_id, pending_gets, receive_task, wsState, thr, closer,
                   gets, afterClose, budget>>

\* ------------------------------------------- set, emit, stream, bundle
\* Clasp._send awaited by a caller (lines 360-366): ClaspError when there is
\* no transport, ConnectionClosed when the transport is closed.
send(m) ==
    IF ws = NoWs THEN [raised |-> "Not connected", out |-> <<>>]
    ELSE IF ~IsOpen(ws) THEN [raised |-> "ConnectionClosed", out |-> <<>>]
    ELSE [raised |-> None, out |-> <<Out(ws, m)>>]

\* A caller operation that builds one message and awaits _send.
Caller(op, m) ==
    /\ ev' = [Ev(op, 0, IF send(m).raised # None THEN send(m).raised ELSE "ok") EXCEPT
                 !.out = send(m).out]
    /\ UNCHANGED <<subscriptions, next_sub_id, pending_gets, receive_task, reconnect,
                   connected, session_id, server_time_offset, ws, wsState, thr,
                   closer, gets, afterClose, budget>>

\* self.time()
time == LocalClock + server_time_offset

\* A set() that also stores the value it sends in the Parameter Cache.
set_writes_cache(address, value) ==
    /\ Caller("set", [Msg("SET") EXCEPT !.address = address, !.value = value])
    /\ params' = [params EXCEPT ![address] = value]

\* set(address, value)
Set(address, value) ==
    /\ Caller("set", [Msg("SET") EXCEPT !.address = address, !.value = value])
    /\ UNCHANGED params

\* emit(address, payload)
Emit(address, payload) ==
    /\ Caller("emit", [Msg("PUBLISH") EXCEPT !.address = address, !.signal = "event",
                                            !.payload = payload, !.time = time])
    /\ UNCHANGED params

\* stream(address, value)
Stream(address, value) ==
    /\ Caller("stream", [Msg("PUBLISH") EXCEPT !.address = address, !.signal = "stream",
                                              !.value = value, !.time = time])
    /\ UNCHANGED params

\* bundle([{"set": (address, value)}, {"emit": (address, value)}])
Bundle(address, value) ==
    /\ Caller("bundle",
              [Msg("BUNDLE") EXCEPT
                  !.params = <<[Msg("SET") EXCEPT !.address = address, !.value = value],
                               [Msg("PUBLISH") EXCEPT !.address = address,
                                                      !.signal = "event",
                                                      !.payload = value]>>])
    /\ UNCHANGED params

\* --------------------------------------------------------- the actions
\* connect() by the application, up to WELCOME, with the inbound frames F.
Handshake(F) ==
    \/ ConnectCall
    \/ ConnectOpen(0)
    \/ ConnectOpenFail(0)
    \/ ConnectHello(0)
    \/ \E f \in F : ConnectRecv(0, f)
    \/ ConnectRecvClosed(0)

\* The receive tasks and the transports, with the inbound frames F.
Receiving(F) ==
    \/ \E t \in Tasks : TaskStart(t)
    \/ \E t \in Tasks, f \in F : TaskRecv(t, f)
    \/ \E t \in Tasks : TaskConnClosed(t)
    \/ \E w \in WsIds : PeerClose(w)

\* The reconnect attempt of a receive task.
Reconnecting(F) ==
    \/ \E t \in Tasks : ReconnectWake(t)
    \/ \E t \in Tasks : ConnectOpen(t)
    \/ \E t \in Tasks : ConnectOpenFail(t)
    \/ \E t \in Tasks : ConnectHello(t)
    \/ \E t \in Tasks, f \in F : ConnectRecv(t, f)
    \/ \E t \in Tasks : ConnectRecvClosed(t)

\* close()
Closing ==
    \/ CloseCall
    \/ CloseAwaited
    \/ CloseFinish

FrameOf(m) == [magic |-> Magic, msg |-> m]
BadFrame == [magic |-> 0, msg |-> NoMsg]
Welcome == [Msg("WELCOME") EXCEPT !.session = "s1", !.time = WelcomeTime]

\* ------------------------------------------------------------------ Spec
\* The session: an application that subscribes once, connects and closes,
\* a client built with or without reconnection, and a peer that answers,
\* sets a parameter, sends a malformed frame or closes the transport.
SessionFrames ==
    {FrameOf(Welcome), FrameOf([Msg("SET") EXCEPT !.address = Addr_a, !.value = "1"]),
     BadFrame}

Init ==
    Constructed([frames |-> MaxFrames, connects |-> MaxConnects,
                 closes |-> MaxCloses, subs |-> SessionSubs], BOOLEAN)

Next ==
    \/ Handshake(SessionFrames)
    \/ Receiving(SessionFrames)
    \/ Reconnecting(SessionFrames)
    \/ Closing
    \/ Subscribe(Pat_all, "ok")

Spec == Init /\ [][Next]_vars

\* -------------------------------------------------------------- SpecGet
\* Point reads: callers of get() beside connect() and close(), on a client
\* built without reconnection; the peer answers with WELCOME and SNAPSHOT
\* (one entry, or two entries for one address).
GetEntry(a, v) == [address |-> a, value |-> v]
GetFrames ==
    {FrameOf(Welcome)}
    \cup {FrameOf([Msg("SNAPSHOT") EXCEPT !.params = b]) :
            b \in {<<GetEntry(Addr_a, "0")>>, <<GetEntry(Addr_a, "1")>>,
                   <<GetEntry(Addr_b, "1")>>,
                   <<GetEntry(Addr_a, "0"), GetEntry(Addr_a, "1")>>}}

InitGet ==
    Constructed([frames |-> GetMaxFrames, connects |-> GetConnects,
                 closes |-> GetCloses, subs |-> 0], {FALSE})

NextGet ==
    \/ Handshake(GetFrames)
    \/ Receiving(GetFrames)
    \/ Closing
    \/ \E g \in GetIds, a \in Addrs : GetCall(g, a)
    \/ \E g \in GetIds : GetTimeout(g)
    \/ \E g \in GetIds : GetReturn(g)

SpecGet == InitGet /\ [][NextGet]_vars

\* --------------------------------------------------------- SpecDispatch
\* Dispatch: subscriptions with an exact and a wildcard pattern, callbacks
\* that return or raise, beside connect() on a client built without
\* reconnection, and every inbound message with the values 0 and 1 (of
\* the SNAPSHOTs with two entries, those whose second entry has the value 1).
DispatchFrames ==
    {f \in Frames : /\ f.msg.value # ""
                    /\ f.msg.payload # ""
                    /\ \A i \in 1..Len(f.msg.params) : f.msg.params[i].value # ""
                    /\ Len(f.msg.params) = 2 => f.msg.params[2].value = "1"}

InitDispatch ==
    Constructed([frames |-> DispatchMaxFrames, connects |-> DispatchConnects,
                 closes |-> 0, subs |-> DispatchSubs], {FALSE})

NextDispatch ==
    \/ Handshake(DispatchFrames)
    \/ Receiving(DispatchFrames)
    \/ \E pattern \in {Pat_a, Pat_all}, cb \in {"ok", "raise"} : Subscribe(pattern, cb)
    \/ \E i \in SubIds : Unsubscribe(i)

SpecDispatch == InitDispatch /\ [][NextDispatch]_vars

\* ------------------------------------------------------------ SpecCache
\* The Parameter Cache under every operation of the client: connect(),
\* close(), get(), subscribe(), unsubscribe, set(), emit(), stream(),
\* bundle() and inbound frames of every type, on a client built without
\* reconnection.
CacheFrames ==
    {FrameOf(Welcome), BadFrame, FrameOf(Msg("PING")),
     FrameOf([Msg("SET") EXCEPT !.address = Addr_a, !.value = "1"]),
     FrameOf([Msg("SET") EXCEPT !.address = Addr_a, !.value = "0"]),
     FrameOf([Msg("SNAPSHOT") EXCEPT !.params = <<GetEntry(Addr_a, "1")>>]),
     FrameOf([Msg("SNAPSHOT") EXCEPT
                 !.params = <<GetEntry(Addr_a, "0"), GetEntry(Addr_b, "1")>>]),
     FrameOf([Msg("PUBLISH") EXCEPT !.address = Addr_a, !.signal = "stream", !.value = "1"]),
     FrameOf([Msg("PUBLISH") EXCEPT !.address = Addr_a, !.signal = "event", !.payload = "1"])}

InitCache ==
    Constructed([frames |-> CacheMaxFrames, connects |-> CacheConnects,
                 closes |-> CacheCloses, subs |-> CacheSubs], {FALSE})

NextCache ==
    \/ Handshake(CacheFrames)
    \/ Receiving(CacheFrames)
    \/ Closing
    \/ GetCall(1, Addr_a)
    \/ GetTimeout(1)
    \/ GetReturn(1)
    \/ Subscribe(Pat_all, "ok")
    \/ Unsubscribe(1)
    \/ Set(Addr_a, "1")
    \/ Emit(Addr_a, "1")
    \/ Stream(Addr_a, "1")
    \/ Bundle(Addr_a, "1")

SpecCache == InitCache /\ [][NextCache]_vars

\* -------------------------------------------------------- SpecReentrant
\* Dispatch to callbacks that return, subscribe or end their own
\* subscription while they are invoked, beside connect() on a client built
\* without reconnection; the peer answers with WELCOME and sends updates
\* of every kind.
ReentrantFrames ==
    {FrameOf(Welcome),
     FrameOf([Msg("SET") EXCEPT !.address = Addr_a, !.value = "1"]),
     FrameOf([Msg("PUBLISH") EXCEPT !.address = Addr_b, !.signal = "stream", !.value = "1"]),
     FrameOf([Msg("SNAPSHOT") EXCEPT
                 !.params = <<GetEntry(Addr_a, "1"), GetEntry(Addr_b, "1")>>])}

InitReentrant ==
    Constructed([frames |-> ReentrantMaxFrames, connects |-> ReentrantConnects,
                 closes |-> 0, subs |-> ReentrantSubs], {FALSE})

NextReentrant ==
    \/ Handshake(ReentrantFrames)
    \/ Receiving(ReentrantFrames)
    \/ \E pattern \in {Pat_a, Pat_all}, cb \in {"ok", "subscribe", "unsubscribe"} :
          Subscribe(pattern, cb)

SpecReentrant == InitReentrant /\ [][NextReentrant]_vars

\* ------------------------------------------------------------ SpecMatch
\* The matcher alone: _match_pattern called with the patterns and the
\* addresses below, on a client that does nothing else.
SegChars == {"a", "b", "c", "d"}

\* The address with the segments segs: "/" before each of them.
RECURSIVE Path(_)
Path(segs) == IF segs = <<>> THEN <<>> ELSE <<"/">> \o Head(segs) \o Path(Tail(segs))

\* Addresses of one to MaxDepth segments of one character.
PlainAddrs ==
    {Path(segs) : segs \in UNION {[1..n -> {<<c>> : c \in SegChars}] : n \in 1..MaxDepth}}

\* Addresses with a longer segment, an empty segment, and characters that
\* fnmatch gives a meaning to.
OddAddrs ==
    {<<"/", "a", "/", "b", "d", "/", "c">>,
     <<"/", "a", "/", "^", "/", "c">>,
     <<"/", "a", "/", "^", "b", "/", "c">>,
     <<"/", "a", "/", "/", "c">>,
     <<"/", "a", "b">>,
     <<"/", "[", "a", "b", "]">>,
     <<"/", "a", "?">>}

MatchAddrs == PlainAddrs \cup OddAddrs

\* Patterns without a wildcard, with `*` and with `**`.
LiteralPatterns ==
    {<<"/", "a">>,
     <<"/", "a", "/", "b">>,
     <<"/", "a", "/", "c">>,
     <<"/", "a", "/", "b", "/", "c">>,
     <<"/", "a", "?">>,
     <<"/", "[", "a", "b", "]">>}
StarPatterns ==
    {<<"/", "a", "/", "*", "/", "c">>,
     <<"/", "*">>,
     <<"/", "a", "/", "*">>,
     <<"/", "*", "/", "b">>}
DoubleStarPatterns ==
    {<<"/", "a", "/", "*", "*", "/", "d">>,
     <<"/", "a", "/", "*", "*">>,
     <<"/", "*", "*">>,
     <<"/", "*", "*", "/", "d">>}
MatchPatterns == LiteralPatterns \cup StarPatterns \cup DoubleStarPatterns

\* self._match_pattern(pattern, address) is called, once in a behaviour,
\* and returns.
MatchPattern(pattern, address) ==
    /\ ev.op = "init"
    /\ ev' = [Ev("match_pattern", 0, match_pattern(pattern, address)) EXCEPT
                 !.arg = <<pattern, address>>]
    /\ UNCHANGED <<client, wsState, thr, closer, gets, afterClose, budget>>

InitMatch ==
    Constructed([frames |-> 0, connects |-> 0, closes |-> 0, subs |-> 0], {FALSE})

NextMatch == \E pattern \in MatchPatterns, address \in MatchAddrs : MatchPattern(pattern, address)

SpecMatch == InitMatch /\ [][NextMatch]_vars

\* ------------------------------------------------------------ SpecCodec
\* The frame codec alone, on bytes. A message is known by its name and by
\* the number of bytes msgpack.packb makes of it; a piece of bytes is the
\* bytes from..from+len-1 of the serialization of a message.
CodecMsgs ==
    {[name |-> n, size |-> k] : n \in {"m1", "m2"},
                                k \in {1, 2, 255, 256, 65535, 65536, 65537, 131075}}
NoCodecMsg == [name |-> None, size |-> 0]

packb(m) == [of |-> m, from |-> 0, len |-> m.size]
Empty == [of |-> NoCodecMsg, from |-> 0, len |-> 0]

Min(a, b) == IF a < b THEN a ELSE b

\* bytes[start:stop], 0 <= start <= stop
Slice(b, start, stop) ==
    LET lo == Min(start, b.len)
        hi == Min(stop, b.len)
    IN  IF hi = lo THEN Empty ELSE [of |-> b.of, from |-> b.from + lo, len |-> hi - lo]

\* msgpack.unpackb: a serialization is self-delimiting, so its proper
\* prefixes are incomplete input; bytes from the middle of one are an
\* exception or some other object ("garbled").
unpackb(b) ==
    IF b.len = 0 THEN [raised |-> "UnpackError", msg |-> NoCodecMsg]
    ELSE IF b.from = 0
         THEN IF b.len = b.of.size THEN [raised |-> None, msg |-> b.of]
              ELSE [raised |-> "UnpackError", msg |-> NoCodecMsg]
         ELSE [raised |-> "garbled", msg |-> NoCodecMsg]

\* Clasp._encode: the header (magic, flags, length high and low byte), then
\* the payload. Nothing in it raises.
encode(m) ==
    LET payload == packb(m)
    IN  [raised |-> None,
         data |-> [head |-> <<Magic, 0, (payload.len \div 256) % 256, payload.len % 256>>,
                   body |-> payload]]

\* len(data), data being a header (or less) and the bytes after it
DataLen(data) == Len(data.head) + data.body.len

\* A decoder that only looks at the length of the buffer.
invalid_frame_short_only(data) == DataLen(data) < 4

\* Line 384
invalid_frame(data) == DataLen(data) < 4 \/ data.head[1] # Magic

\* Clasp._decode
decode_data(data) ==
    IF invalid_frame(data) THEN [raised |-> "ClaspError", msg |-> NoCodecMsg]
    ELSE LET flags == data.head[2]
             payload_len == data.head[3] * 256 + data.head[4]
             has_timestamp == (flags \div 32) % 2 = 1
             offset == IF has_timestamp THEN 12 ELSE 4
         IN  unpackb(Slice(data.body, offset - 4, offset - 4 + payload_len))

\* The buffers handed to _decode that no _encode made: up to three bytes, or
\* a header of any bytes before a serialization or a part of one.
ByteVals == {0, 1, 32, Magic}
Heads(n) == [1..n -> ByteVals]
Bodies ==
    {Empty}
    \cup {Slice(packb(m), k, m.size) : m \in {c \in CodecMsgs : c.size \in {2, 256}},
                                       k \in {0, 1}}
Buffers ==
    {[head |-> h, body |-> Empty] : h \in Heads(0) \cup Heads(1) \cup Heads(2) \cup Heads(3)}
    \cup {[head |-> h, body |-> b] : h \in Heads(4), b \in Bodies}

\* _encode(m) is called.
Encode(m) ==
    /\ ev.op = "init"
    /\ ev' = [Ev("encode", 0, encode(m)) EXCEPT !.arg = <<m, Empty>>]
    /\ UNCHANGED <<client, wsState, thr, closer, gets, afterClose, budget>>

\* _decode is called with the frame _encode returned.
DecodeEncoded ==
    /\ ev.op = "encode"
    /\ ev.res.raised = None
    /\ ev' = [Ev("decode", 0, decode_data(ev.res.data)) EXCEPT
                 !.arg = <<ev.arg[1], ev.res.data>>]
    /\ UNCHANGED <<client, wsState, thr, closer, gets, afterClose, budget>>

\* _decode is called with a buffer from elsewhere.
Decode(data) ==
    /\ ev.op = "init"
    /\ ev' = [Ev("decode", 0, decode_data(data)) EXCEPT !.arg = <<NoCodecMsg, data>>]
    /\ UNCHANGED <<client, wsState, thr, closer, gets, afterClose, budget>>

InitCodec ==
    Constructed([frames |-> 0, connects |-> 0, closes |-> 0, subs |-> 0], {FALSE})

NextCodec ==
    \/ \E m \in CodecMsgs : Encode(m)
    \/ DecodeEncoded
    \/ \E data \in Buffers : Decode(data)

SpecCodec == InitCodec /\ [][NextCodec]_vars

\* ================================================================ claims
Count(s, x) == Cardinality({k \in DOMAIN s : s[k] = x})
InConnect(p) == thr[p].pc \in {"opening", "hello", "welcome"}

\* C1: once close() has returned, and until the application calls connect()
\* again, no subscriber callback is invoked (close() calls that ran beside a
\* connect() of the application are left aside).
C1_NoDispatchAfterClose == afterClose = "yes" => ev.invoked = <<>>

\* C2: a get() that is suspended and has seen no SNAPSHOT entry for its
\* address ends with the get-timeout error and nothing else, and the
\* Pending-Request Table then holds no slot for its address.
C2_GetTimesOut ==
    [][\A g \in GetIds :
          (gets[g].pc = "wait" /\ gets[g].seen = None /\ gets'[g].pc = "done")
          => /\ ev'.who = g
             /\ ev'.res = "Get timeout"
             /\ pending_gets'[gets[g].addr] = 0]_vars

\* C3: a get() that was suspended when a SNAPSHOT entry (address, v) for its
\* address was applied returns v, and after a SNAPSHOT has been handled the
\* Pending-Request Table holds no slot for the addresses of its entries.
C3_SnapshotResolvesGet ==
    [][/\ \A g \in GetIds :
             (gets[g].pc = "wait" /\ gets[g].seen # None /\ gets'[g].pc = "done")
             => (ev'.who = g /\ ev'.res = gets[g].seen)
       /\ (ev'.op = "recv" /\ ev'.msg.type = "SNAPSHOT")
             => \A k \in DOMAIN ev'.msg.params :
                   pending_gets'[ev'.msg.params[k].address] = 0]_vars

\* C4: get(address) on a cached address returns the cached value, writes no
\* frame and leaves the Pending-Request Table alone, connected or not.
C4_CachedGet ==
    [][\A g \in GetIds, a \in Addrs :
          (gets[g].pc = "idle" /\ gets'[g].pc # "idle" /\ ev'.arg = a
              /\ params[a] # Absent)
          => /\ gets'[g].pc = "done"
             /\ ev'.who = g
             /\ ev'.res = params[a]
             /\ ev'.out = <<>>
             /\ pending_gets' = pending_gets
             /\ params' = params]_vars

\* A get() answered from the cache with a falsy value after close() returned.
C4_Witness ==
    /\ ev.op = "get"
    /\ ev.res = "0"
    /\ params[ev.arg] = "0"
    /\ ~connected
    /\ afterClose = "yes"

\* C5: once close() has returned, and until the application calls connect()
\* again, the session is Disconnected, holds no transport, and no receive
\* task is in a reconnect attempt.
C5_ClosedStaysDisconnected ==
    afterClose # "no" => /\ ~connected
                  /\ ws = NoWs
                  /\ \A t \in Tasks : ~InConnect(t)

\* C6: a receive task that sees the transport closed while reconnection is
\* enabled marks the session Disconnected, calls the disconnect callbacks
\* and waits; the wait ends in one reconnect attempt (or in cancellation);
\* an attempt that fails ends the task and does not connect the session.
C6_ReconnectOnClosure ==
    [][\A t \in Tasks :
          /\ (thr[t].pc = "recv" /\ ev'.op = "conn_closed" /\ ev'.who = t /\ reconnect)
                => /\ ~connected'
                   /\ ev'.cbs = <<CbEv("on_disconnect", "ConnectionClosed")>>
                   /\ thr'[t].pc = "sleep"
          /\ (thr[t].pc = "sleep" /\ thr'[t].pc # "sleep")
                => thr'[t].pc \in {"opening", "done", "cancelled"}
          /\ ((thr[t].pc = "sleep" \/ InConnect(t)) /\ thr'[t].pc = "done"
                 /\ ev'.res # "ok")
                => (connected' => connected)]_vars

\* C7: connect() called while the session is Connected raises at once and
\* changes nothing: no transport, no HELLO, the same session id, flag, time
\* offset, receive task and threads.
C7_ConnectWhileConnected ==
    [][(connected /\ budget'.connects # budget.connects)
          => /\ ev'.res = "Already connected"
             /\ ev'.out = <<>>
             /\ UNCHANGED <<client, wsState, thr>>]_vars

\* The application's connect() was refused on a Connected session.
C7_Witness ==
    /\ ev.op = "connect"
    /\ ev.res = "Already connected"
    /\ connected
    /\ receive_task # NoTask

\* C8: the session id is absent as long as no WELCOME was received, it is
\* the WELCOME's session when one is received, and it is absent when
\* close() returns.
C8_SessionIdLifetime ==
    /\ (\A t \in Tasks : thr[t].pc = "none") => session_id = None
    /\ ev.op = "welcome" => session_id = ev.msg.session
    /\ (ev.op = "close" /\ ev.res = "returned") => session_id = None

\* The addresses of the updates a message carries.
UpdateAddrs(msg) ==
    CASE msg.type \in {"SET", "PUBLISH"} -> {msg.address}
      [] msg.type = "SNAPSHOT" -> {msg.params[k].address : k \in DOMAIN msg.params}
      [] OTHER -> {}

\* C9: when the receive loop has handled an update, every active
\* subscription whose pattern matches was invoked although callbacks
\* raised, every exception raised went to the error callbacks, none
\* reached the loop, and the loop reads on.
C9_CallbackIsolation ==
    (ev.op = "recv" /\ ev.msg.type \in {"SET", "PUBLISH", "SNAPSHOT"})
    => /\ ev.res = "ok"
       /\ \A a \in UpdateAddrs(ev.msg), i \in SubIds :
             (subscriptions[i] # NoSub /\ matches(subscriptions[i].pattern, a))
             => \E k \in DOMAIN ev.invoked :
                   ev.invoked[k].sub = i /\ ev.invoked[k].address = a
       /\ Count(ev.cbs, CbEv("on_error", "CallbackError"))
             = Cardinality({k \in DOMAIN ev.invoked :
                               subscriptions[ev.invoked[k].sub].cb = "raise"})
       /\ thr[ev.who].pc = "recv"

\* A dispatch in which the first callback raised and a later one was called.
C9_Witness ==
    /\ ev.op = "recv"
    /\ Len(ev.invoked) >= 2
    /\ subscriptions[ev.invoked[1].sub].cb = "raise"
    /\ subscriptions[ev.invoked[2].sub].cb = "ok"
    /\ ev.invoked[1].address = ev.invoked[2].address
    /\ thr[ev.who].pc = "recv"

\* The updates a message carries, as the protocol defines them: a stream
\* PUBLISH carries its value, an event PUBLISH its payload.
Carried(msg) ==
    CASE msg.type = "SET" -> <<[address |-> msg.address, value |-> msg.value]>>
      [] msg.type = "PUBLISH" ->
            <<[address |-> msg.address,
               value |-> IF msg.signal = "stream" THEN msg.value ELSE msg.payload]>>
      [] msg.type = "SNAPSHOT" -> msg.params
      [] OTHER -> <<>>

\* How often subscription i is to be called with (value, address) for msg.
Expected(msg, i, value, address) ==
    IF subscriptions[i] # NoSub /\ matches(subscriptions[i].pattern, address)
    THEN Count(Carried(msg), [address |-> address, value |-> value])
    ELSE 0

\* C10: for every inbound update each active subscription whose pattern
\* matches is called exactly once with the value the message carries and
\* the address, and no other subscription is called.
C10_DispatchExact ==
    (ev.op = "recv" /\ ev.res = "ok")
    => \A i \in SubIds, a \in Addrs, v \in Values \cup {None} :
          Count(ev.invoked, Call(i, v, a)) = Expected(ev.msg, i, v, a)

\* How many of the updates msg carries have an address pattern matches.
MatchingUpdates(msg, pattern) ==
    Cardinality({k \in DOMAIN Carried(msg) : matches(pattern, Carried(msg)[k].address)})

\* How often subscription i was called in the last step.
CallsOf(i) == Cardinality({k \in DOMAIN ev.invoked : ev.invoked[k].sub = i})

\* Subscription i was made and its unsubscribe capability has been called.
Unsubscribed(i) == i < next_sub_id /\ subscriptions[i] = NoSub

\* The part of C11 about dispatch: a subscription whose unsubscribe
\* capability has been called is not invoked for an update handled
\* afterwards, and an active one is invoked once per matching update.
C11_Dispatch ==
    (ev.op = "recv" /\ ev.res = "ok")
    => \A i \in SubIds :
          /\ Unsubscribed(i) => CallsOf(i) = 0
          /\ subscriptions[i] # NoSub
                => CallsOf(i) = MatchingUpdates(ev.msg, subscriptions[i].pattern)

RECURSIVE Split(_)
Split(s) ==
    IF \A k \in 1..Len(s) : s[k] # "/" THEN <<s>>
    ELSE LET k == CHOOSE j \in 1..Len(s) : s[j] = "/" /\ \A i \in 1..(j - 1) : s[i] # "/"
         IN  <<SubSeq(s, 1, k - 1)>> \o Split(SubSeq(s, k + 1, Len(s)))

\* The segments of an address or pattern that begins with "/".
Segments(s) == Tail(Split(s))

\* Matching as the protocol defines it, segment by segment: `*` is exactly
\* one non-empty segment, `**` is zero or more segments, any other segment
\* is itself.
RECURSIVE SegMatch(_, _)
SegMatch(ps, as) ==
    IF ps = <<>> THEN as = <<>>
    ELSE IF Head(ps) = <<"*", "*">>
         THEN \/ SegMatch(Tail(ps), as)
              \/ as # <<>> /\ SegMatch(ps, Tail(as))
         ELSE /\ as # <<>>
              /\ \/ Head(ps) = <<"*">> /\ Head(as) # <<>>
                 \/ Head(ps) = Head(as)
              /\ SegMatch(Tail(ps), Tail(as))

HasSegment(pattern, seg) == \E k \in DOMAIN Segments(pattern) : Segments(pattern)[k] = seg

\* C12: for a pattern without `*` the matcher returns true exactly when
\* the pattern equals the address.
C12_ExactMatch ==
    (ev.op = "match_pattern" /\ \A k \in DOMAIN ev.arg[1] : ev.arg[1][k] # "*")
    => (ev.res <=> ev.arg[1] = ev.arg[2])

\* C13: for a pattern with `*` segments and no `**`, the matcher returns
\* true exactly when each `*` stands for one non-empty segment without "/"
\* and the other segments are equal.
C13_SingleWildcard ==
    (ev.op = "match_pattern" /\ HasSegment(ev.arg[1], <<"*">>)
        /\ ~HasSegment(ev.arg[1], <<"*", "*">>))
    => (ev.res <=> SegMatch(Segments(ev.arg[1]), Segments(ev.arg[2])))

\* C14: for a pattern with `**` segments (and no `*`), the matcher returns
\* true exactly when each `**` stands for zero or more whole segments and
\* the other segments are equal.
C14_MultiWildcard ==
    (ev.op = "match_pattern" /\ HasSegment(ev.arg[1], <<"*", "*">>)
        /\ ~HasSegment(ev.arg[1], <<"*">>))
    => (ev.res <=> SegMatch(Segments(ev.arg[1]), Segments(ev.arg[2])))

\* C15: the frame encode makes of a message, whatever the length of its
\* payload, is decoded back to that message.
C15_RoundTrip ==
    (ev.op = "decode" /\ ev.arg[1] # NoCodecMsg)
    => (ev.res.raised = None /\ ev.res.msg = ev.arg[1])

\* C16: encode fails for a payload longer than 65535 bytes, and the length
\* field of every frame it makes is the length of the frame's payload.
C16_EncodeLength ==
    ev.op = "encode"
    => /\ ev.arg[1].size > 65535 => ev.res.raised # None
       /\ ev.res.raised = None
             => ev.res.data.head[3] * 256 + ev.res.data.head[4] = ev.res.data.body.len

\* C17: decode raises the protocol error and returns no message for a
\* buffer shorter than 4 bytes and for a buffer whose first byte is not the
\* magic byte.
C17_DecodeRejects ==
    (ev.op = "decode"
        /\ (DataLen(ev.arg[2]) < 4 \/ ev.arg[2].head[1] # Magic))
    => (ev.res.raised = "ClaspError" /\ ev.res.msg = NoCodecMsg)

\* A buffer with a whole serialization after a header whose first byte is
\* not the magic byte was refused.
C17_Witness ==
    /\ ev.op = "decode"
    /\ Len(ev.arg[2].head) = 4
    /\ ev.arg[2].head[1] # Magic
    /\ ev.arg[2].head[3] * 256 + ev.arg[2].head[4] = ev.arg[2].body.len
    /\ ev.arg[2].body.from = 0
    /\ ev.arg[2].body.len = ev.arg[2].body.of.size
    /\ ev.res.raised = "ClaspError"

\* The step is one in which the receive loop of task t fails for another
\* reason than the closure of the transport.
LoopFails(t) ==
    /\ ev'.who = t
    /\ ev'.op \in {"recv", "task_start"}
    /\ \E k \in DOMAIN ev'.cbs :
          ev'.cbs[k].cb = "on_error" /\ ev'.cbs[k].arg # "CallbackError"

\* C18: a receive loop that fails for another reason than the closure of the
\* transport hands the failure to the error callbacks and ends; a malformed
\* frame is not dispatched; the task that ended reads no frame and starts
\* no reconnect attempt afterwards (its place is only taken by the task a
\* connect() of another thread creates).
C18_LoopFailure ==
    [][\A t \in Tasks :
          /\ LoopFails(t)
                => /\ thr'[t].pc = "done"
                   /\ ev'.cbs[Len(ev'.cbs)].cb = "on_error"
                   /\ ev'.cbs[Len(ev'.cbs)].arg \in {"Invalid frame", "RuntimeError"}
          /\ (ev'.op = "recv" /\ ev'.who = t /\ ev'.res = "error")
                => /\ LoopFails(t)
                   /\ ev'.invoked = <<>>
                   /\ ev'.out = <<>>
                   /\ params' = params
                   /\ pending_gets' = pending_gets
          /\ thr[t].pc = "done"
                => \/ thr'[t].pc = "done"
                   \/ thr'[t].pc = "start" /\ ev'.op = "welcome" /\ ev'.who # t]_vars

\* A malformed frame ended the receive loop of a Connected session whose
\* transport is open.
C18_Witness ==
    /\ ev.op = "recv"
    /\ ev.res = "error"
    /\ ev.cbs = <<CbEv("on_error", "Invalid frame")>>
    /\ thr[ev.who].pc = "done"
    /\ receive_task = ev.who
    /\ IsOpen(ws)

\* The value of the last of the entries es that is for address a, old when
\* none is.
RECURSIVE LastFor(_, _, _)
LastFor(es, a, old) ==
    IF es = <<>> THEN old
    ELSE LastFor(Tail(es), a, IF Head(es).address = a THEN Head(es).value ELSE old)

\* C19: the Parameter Cache changes only in a step in which the receive
\* loop handles a SET or a SNAPSHOT, which leaves in the cache, for each
\* address of the message, the value received for it; every caller
\* operation and an inbound PUBLISH leave the cache as it is.
C19_CacheWriters ==
    [][/\ params' # params
             => (ev'.op = "recv" /\ ev'.msg.type \in {"SET", "SNAPSHOT"})
       /\ (ev'.op = "recv" /\ ev'.res = "ok")
             => \A a \in Addrs :
                   params'[a] = IF ev'.msg.type = "SET"
                                THEN (IF ev'.msg.address = a THEN ev'.msg.value
                                      ELSE params[a])
                                ELSE LastFor(ev'.msg.params, a, params[a])]_vars

\* set("/a", 1) was sent on the open transport and the cache has no value
\* for "/a".
C19_Witness ==
    /\ ev.op = "set"
    /\ ev.res = "ok"
    /\ Len(ev.out) = 1
    /\ ev.out[1].msg.address = Addr_a
    /\ params[Addr_a] = Absent

\* C20: whenever the connectivity flag is true, the receive task of the
\* session is alive: created and about to read, or reading.
C20_ConnectedHasReceiver ==
    connected => /\ receive_task # NoTask
                 /\ thr[receive_task].pc \in {"start", "recv"}

\* The last step was a connect() of a Disconnected session that ended by
\* raising ClaspError("Connection failed: ...") to its caller.
ConnectRaised ==
    \/ ev.op = "connect_failed"
    \/ ev.op = "welcome" /\ ev.res = "ClaspError"

\* C21: when connect(), called on a Disconnected session, raises to its
\* caller, the connectivity flag is false and no receive task was started
\* (none is about to run or reading), whatever step failed.
C21_FailedConnectDisconnected ==
    ConnectRaised =>
        /\ ~connected
        /\ \A t \in Tasks : thr[t].pc \notin {"start", "recv"}

\* C22: a get(address) on an uncached address that fails because the GET
\* cannot be sent (no transport) leaves the Pending-Request Table as it was:
\* no slot for the address remains registered by the call.
C22_FailedGetLeavesNoSlot ==
    [][(ev'.op = "get" /\ ev'.res = "Not connected") =>
          pending_gets' = pending_gets]_vars

\* The callback of subscription s calls subscribe or its unsubscribe
\* capability when it is invoked.
Reentrant(s) == s.cb \in {"subscribe", "unsubscribe"}

\* C23: when a callback invoked during the dispatch of an update calls
\* subscribe or an unsubscribe capability, every other active subscription
\* is still invoked once per update of the message its pattern matches and
\* keeps its registry entry, and the receive loop reads on.
C23_ReentrantCallbacks ==
    [][(/\ ev'.op = "recv"
        /\ \E k \in DOMAIN ev'.invoked : Reentrant(subscriptions[ev'.invoked[k].sub]))
       => /\ \A i \in SubIds :
                (subscriptions[i] # NoSub /\ ~Reentrant(subscriptions[i]))
                => /\ Cardinality({k \in DOMAIN ev'.invoked : ev'.invoked[k].sub = i})
                         = MatchingUpdates(ev'.msg, subscriptions[i].pattern)
                   /\ subscriptions'[i] = subscriptions[i]
          /\ ev'.res = "ok"
          /\ thr'[ev'.who].pc = "recv"]_vars

\* The receive tasks that are reading frames from a transport.
Readers == {t \in Tasks : thr[t].pc = "recv"}

\* The open transports the session holds: the one self._ws refers to, and
\* those a connect() or a receive task of the session is sending on or
\* reading from.
HeldTransports ==
    {w \in WsIds :
        /\ wsState[w] = "open"
        /\ \/ w = ws
           \/ \E p \in Threads : thr[p].ws = w /\ thr[p].pc \in {"hello", "welcome", "recv"}}

\* C24: at any time at most one receive task of the session is reading
\* frames and dispatching them, and the session holds at most one transport
\* open, for every interleaving of connect(), reconnects and close().
C24_OneReceiverOneTransport ==
    /\ Cardinality(Readers) <= 1
    /\ Cardinality(HeldTransports) <= 1


====
